---- MODULE Spec2Model ----
(***************************************************************************)
(* A model of charlton/user_util.py: balanced() and demo_data().           *)
(*                                                                         *)
(* A Python str is a sequence of one-character strings ("ab" is            *)
(* <<"a","b">>), a list or tuple is a sequence, a dict is a sequence of    *)
(* <<key, value>> pairs with distinct keys in iteration order, and the     *)
(* returned data dictionary is a function from names to columns.  A float  *)
(* drawn from a numpy RandomState is the record [seed, index]: the         *)
(* index-th normal deviate of the stream that seed starts.                 *)
(***************************************************************************)
EXTENDS Integers, Sequences, FiniteSets, TLC

\* ------------------------------------------------------------------ bounds
MaxFactors == 3
MaxLevels == 2
MaxRepeat == 2
MaxNames == 3
MaxMinRows == 3
MaxSeqNames == 2

\* ------------------------------------------------------- program constants
DefaultRepeat == 1
DefaultNLevels == 2
DefaultMinRows == 5
Seed == 0

VARIABLES
    pc,         \* "call": the arguments are bound; "done": the call has ended
    fn,         \* the function called: "balanced" or "demo_data"
    names,      \* demo_data's positional arguments, in the order passed
    kwargs,     \* the keyword arguments, as <<key, value>> pairs
    outcome,    \* "return", or the exception the call raised
    data,       \* the returned dictionary (empty when the call raised)
    effects,    \* what the call did on the way: see NoEffects
    np_random,  \* numpy's module-level generator, shared by the whole process
    pin         \* an earlier demo_data call and what it returned, kept to compare

vars == <<pc, fn, names, kwargs, outcome, data, effects, np_random, pin>>

\* ------------------------------------------------------------ str and order
\* The characters the model's strings are made of, in ascending ASCII order.
Ascii ==
    <<"0", "1", "2", "3", "4", "5", "6", "7", "8", "9", "A", "_",
      "a", "b", "c", "d", "e", "f", "g", "h", "i", "j", "k", "l", "m",
      "n", "o", "p", "q", "r", "s", "t", "u", "v", "w", "x", "y", "z">>

Ord(c) == CHOOSE i \in 1..Len(Ascii) : Ascii[i] = c

\* Python's < on two str values: the first differing character decides, and
\* a proper prefix is smaller.
RECURSIVE StrLess(_, _)
StrLess(s, t) ==
    IF t = <<>> THEN FALSE
    ELSE IF s = <<>> THEN TRUE
    ELSE IF Head(s) # Head(t) THEN Ord(Head(s)) < Ord(Head(t))
    ELSE StrLess(Tail(s), Tail(t))

\* "%s" % i for an int i >= 0: its decimal digits.
Digits == <<"0", "1", "2", "3", "4", "5", "6", "7", "8", "9">>

RECURSIVE Str(_)
Str(i) ==
    IF i < Len(Digits) THEN <<Digits[i + 1]>>
    ELSE Str(i \div Len(Digits)) \o <<Digits[(i % Len(Digits)) + 1]>>

\* sorted(xs) for a sequence of str.
RECURSIVE Insert(_, _)
Insert(x, sortedSeq) ==
    IF sortedSeq = <<>> THEN <<x>>
    ELSE IF StrLess(x, Head(sortedSeq)) THEN <<x>> \o sortedSeq
    ELSE <<Head(sortedSeq)>> \o Insert(x, Tail(sortedSeq))

RECURSIVE InsertionSort(_)
InsertionSort(xs) ==
    IF xs = <<>> THEN <<>> ELSE Insert(Head(xs), InsertionSort(Tail(xs)))

Sorted(xs) == InsertionSort(xs)

\* The keyword names the code pops, and the one its test passes unasked.
REPEAT == <<"r", "e", "p", "e", "a", "t">>

NLEVELS == <<"n", "l", "e", "v", "e", "l", "s">>

MIN_ROWS == <<"m", "i", "n", "_", "r", "o", "w", "s">>

ASDFASDF == <<"a", "s", "d", "f", "a", "s", "d", "f">>

\* ------------------------------------------------------------------- dicts
Keys(d) == [i \in 1..Len(d) |-> d[i][1]]

Values(d) == [i \in 1..Len(d) |-> d[i][2]]

KeySet(d) == {d[i][1] : i \in 1..Len(d)}

HasKey(d, k) == k \in KeySet(d)

Get(d, k) == d[CHOOSE i \in 1..Len(d) : d[i][1] = k][2]

\* d.pop(k, default): the value, and d without the key.
PopValue(d, k, default) == IF HasKey(d, k) THEN Get(d, k) ELSE default

RECURSIVE Without(_, _)
Without(d, k) ==
    IF d = <<>> THEN <<>>
    ELSE IF Head(d)[1] = k THEN Without(Tail(d), k)
    ELSE <<Head(d)>> \o Without(Tail(d), k)

\* d[k] = v: an existing key keeps its place.
SetItem(d, k, v) ==
    IF HasKey(d, k)
    THEN [i \in 1..Len(d) |-> IF d[i][1] = k THEN <<k, v>> ELSE d[i]]
    ELSE Append(d, <<k, v>>)

Min(a, b) == IF a < b THEN a ELSE b

MinLen(rows) ==
    CHOOSE n \in {Len(rows[i]) : i \in 1..Len(rows)} :
        \A i \in 1..Len(rows) : n <= Len(rows[i])

\* zip(*rows): the transpose, cut to the shortest row; nothing for no rows.
Unzip(rows) ==
    IF rows = <<>> THEN <<>>
    ELSE [k \in 1..MinLen(rows) |-> [i \in 1..Len(rows) |-> rows[i][k]]]

\* zip(xs, ys): pairs, cut to the shorter.
Zip(xs, ys) == [i \in 1..Min(Len(xs), Len(ys)) |-> <<xs[i], ys[i]>>]

\* list(value) * n
RECURSIVE Times(_, _)
Times(xs, n) == IF n <= 0 THEN <<>> ELSE xs \o Times(xs, n - 1)

\* ---------------------------------------------------------------- balanced
\* ["%s%s" % (name, i) for i in xrange(1, level_count + 1)]
LevelLabels(name, level_count) == [i \in 1..level_count |-> name \o Str(i)]

\* [x + [y] for x in result for y in pool]: the outer loop runs over result,
\* the inner one over pool.
Extend(result, pool) ==
    [m \in 1..(Len(result) * Len(pool)) |->
        Append(result[((m - 1) \div Len(pool)) + 1],
               pool[((m - 1) % Len(pool)) + 1])]

\* itertools.product(*pools): result = [[]], extended by each pool in turn.
RECURSIVE ProductFrom(_, _)
ProductFrom(result, pools) ==
    IF pools = <<>> THEN result
    ELSE ProductFrom(Extend(result, Head(pools)), Tail(pools))

itertools_product(pools) == ProductFrom(<<<<>>>>, pools)

\* (mutant) the factors in the order they were passed, unsorted
KeyOrderAsPassed(kw) == Keys(kw)

KeyOrder(kw) == Sorted(Keys(kw))

\* (mutant) the block returned once, whatever repeat says
TileOnce(column, repeat) == column

\* (mutant) each entry repeated in place: a1 a1 a2 a2 instead of a1 a2 a1 a2
RECURSIVE TileInterleaved(_, _)
TileInterleaved(column, repeat) ==
    IF column = <<>> THEN <<>>
    ELSE Times(<<Head(column)>>, repeat) \o TileInterleaved(Tail(column), repeat)

\* list(value) * repeat
Tile(column, repeat) == Times(column, repeat)

balanced(kw) ==
    LET repeat == PopValue(kw, REPEAT, DefaultRepeat)
        rest   == Without(kw, REPEAT)
        nms    == KeyOrder(rest)
        levels == [k \in 1..Len(nms) |-> LevelLabels(nms[k], Get(rest, nms[k]))]
        values == Unzip(itertools_product(levels))
        pairs  == Zip(nms, values)
    IN  [n \in {pairs[i][1] : i \in 1..Len(pairs)} |->
            Tile(Get(pairs, n), repeat)]

\* --------------------------------------------------------------- demo_data
\* (mutant) the docstring's range, "a" through "m"
CategoricalFirstAToM ==
    {"a", "b", "c", "d", "e", "f", "g", "h", "i", "j", "k", "l", "m"}

CategoricalFirst ==
    {"a", "b", "c", "d", "e", "f", "g", "h", "i", "j", "k", "l", "m", "n"}

NumericalFirst == {"p", "q", "r", "s", "t", "u", "v", "w", "x", "y", "z"}

IsCategorical(name) == name[1] \in CategoricalFirst

IsNumerical(name) == name[1] \in NumericalFirst

\* numerical.add(name): a set, kept as the sequence of its members.
SetAdd(s, x) == IF \E i \in 1..Len(s) : s[i] = x THEN s ELSE Append(s, x)

\* The loop of lines 104-110.  name[0] of an empty str raises IndexError.
RECURSIVE Classify(_, _, _, _)
Classify(nms, nlevels, categorical, numerical) ==
    IF nms = <<>>
    THEN [error |-> "none", bad |-> <<>>,
          categorical |-> categorical, numerical |-> numerical]
    ELSE LET name == Head(nms) IN
         IF name = <<>>
         THEN [error |-> "IndexError", bad |-> name,
               categorical |-> categorical, numerical |-> numerical]
         ELSE IF IsCategorical(name)
         THEN Classify(Tail(nms), nlevels,
                       SetItem(categorical, name, nlevels), numerical)
         ELSE IF IsNumerical(name)
         THEN Classify(Tail(nms), nlevels, categorical, SetAdd(numerical, name))
         ELSE [error |-> "PatsyError", bad |-> name,
               categorical |-> categorical, numerical |-> numerical]

\* np.prod(xs); the product of no numbers is 1.
RECURSIVE Prod(_)
Prod(xs) == IF xs = <<>> THEN 1 ELSE Head(xs) * Prod(Tail(xs))

\* (mutant) the quotient rounded down
FloorDiv(a, b) == a \div b

\* int(np.ceil(a * 1.0 / b)) for a >= 0, b > 0.
CeilDiv(a, b) == IF a % b = 0 THEN a \div b ELSE (a \div b) + 1

\* np.random.RandomState(seed): a generator of its own, at the stream's start.
RandomState(seed) == [gen |-> "RandomState", seed |-> seed, pos |-> 0]

\* r.normal(size=n): the next n deviates of r's stream.
Normal(r, n) == [k \in 1..n |-> [seed |-> r.seed, index |-> r.pos + k - 1]]

Advance(r, n) == [r EXCEPT !.pos = r.pos + n]

\* The generator line 115 binds to r; shared is numpy's module-level one.
\* (mutant) the module-level generator is drawn from
GeneratorShared(shared) == shared

Generator(shared) == RandomState(Seed)

\* (mutant) the numeric names in the order the set gives them
NumericOrderAsAdded(numerical) == numerical

NumericOrder(numerical) == Sorted(numerical)

\* The loop of lines 116-117: [columns, r] after it.
RECURSIVE DrawColumns(_, _, _)
DrawColumns(nms, r, num_rows) ==
    IF nms = <<>> THEN [columns |-> <<>>, r |-> r]
    ELSE LET rest == DrawColumns(Tail(nms), Advance(r, num_rows), num_rows)
         IN  [columns |-> (Head(nms) :> Normal(r, num_rows)) @@ rest.columns,
              r |-> rest.r]

NoEffects == [balanced |-> 0, seeded |-> <<>>, drawn |-> 0]

Raise(exc, bad, shared) ==
    [outcome |-> exc, bad |-> bad, data |-> <<>>, effects |-> NoEffects,
     np_random |-> shared]

BalancedSize(categorical) == Prod(Values(categorical))

\* Lines 102-118, after the keyword arguments were accepted.
Build(nms, nlevels, min_rows, shared) ==
    LET c == Classify(nms, nlevels, <<>>, <<>>) IN
    IF c.error # "none" THEN Raise(c.error, c.bad, shared)
    ELSE
    LET balanced_design_size == BalancedSize(c.categorical)
        repeat   == CeilDiv(min_rows, balanced_design_size)
        num_rows == repeat * balanced_design_size
        design   == balanced(Append(c.categorical,
                                    <<REPEAT, repeat>>))
        r        == Generator(shared)
        numeric  == NumericOrder(c.numerical)
        drawn    == DrawColumns(numeric, r, num_rows)
    IN  [outcome |-> "return", bad |-> <<>>,
         data |-> drawn.columns @@ design,
         effects |-> [balanced |-> 1,
                      seeded |-> IF r.gen = "RandomState" THEN <<r.seed>>
                                 ELSE <<>>,
                      drawn |-> Len(numeric) * num_rows],
         np_random |-> IF r.gen = "RandomState" THEN shared ELSE drawn.r]

\* (mutant) whatever is left is let through
LeftOverIgnored(kw) == <<>>

\* Lines 98-101: what is left of kwargs after the two pops.
LeftOver(kw) == Without(Without(kw, NLEVELS), MIN_ROWS)

\* (mutant) the names are classified first, the keywords checked after
demo_data_names_first(nms, kw, shared) ==
    LET nlevels  == PopValue(kw, NLEVELS, DefaultNLevels)
        min_rows == PopValue(kw, MIN_ROWS, DefaultMinRows)
        res      == Build(nms, nlevels, min_rows, shared)
    IN  IF res.outcome # "return" THEN res
        ELSE IF LeftOver(kw) # <<>> THEN Raise("TypeError", <<>>, shared)
        ELSE res

demo_data(nms, kw, shared) ==
    LET nlevels  == PopValue(kw, NLEVELS, DefaultNLevels)
        min_rows == PopValue(kw, MIN_ROWS, DefaultMinRows)
    IN  IF LeftOver(kw) # <<>> THEN Raise("TypeError", <<>>, shared)
        ELSE Build(nms, nlevels, min_rows, shared)

\* ------------------------------------------------------------------ inputs
DistinctSeqs(S, n) ==
    {s \in [1..n -> S] : \A i, j \in 1..n : s[i] = s[j] => i = j}

SeqsUpTo(S, n) == UNION {[1..k -> S] : k \in 0..n}

\* A keyword that may be left out: no pair, or one pair per value.
Optional(key, vals) == {<<>>} \cup {<<<<key, v>>>> : v \in vals}

FactorNames == {<<"a">>, <<"a", "b">>, <<"b">>, <<"c">>}

FactorKwargs ==
    UNION {{[i \in 1..n |-> <<ns[i], cs[i]>>] :
                ns \in DistinctSeqs(FactorNames, n),
                cs \in [1..n -> 1..MaxLevels]} : n \in 0..MaxFactors}

BalancedInputs ==
    {f \o r : f \in FactorKwargs, r \in Optional(REPEAT, 1..MaxRepeat)}

DemoNames ==
    {<<>>, <<"a">>, <<"n", "x">>, <<"o">>, <<"p">>, <<"z", "a">>, <<"_", "1">>,
     <<"A">>, <<"1", "a">>}

DemoKwargs ==
    {l \o m \o x : l \in Optional(NLEVELS, 1..MaxLevels),
                   m \in Optional(MIN_ROWS, 1..MaxMinRows),
                   x \in Optional(ASDFASDF, {123})}

\* ----------------------------------------------------------------- actions
Fresh == [gen |-> "np.random", seed |-> Seed + 1, pos |-> 0]

NoPin == [set |-> FALSE, names |-> <<>>, kwargs |-> <<>>,
          outcome |-> "pending", data |-> <<>>, between |-> FALSE]

\* A caller binds the arguments of the next call.
Invoke(f, nms, kw) ==
    /\ pc \in {"idle", "done"}
    /\ pc' = "call"
    /\ fn' = f
    /\ names' = nms
    /\ kwargs' = kw
    /\ outcome' = "pending"
    /\ data' = <<>>
    /\ effects' = NoEffects
    /\ pin' = IF pin.set /\ (f # "demo_data" \/ nms # pin.names \/ kw # pin.kwargs)
              THEN [pin EXCEPT !.between = TRUE] ELSE pin
    /\ UNCHANGED np_random

BalancedCall ==
    /\ pc = "call"
    /\ fn = "balanced"
    /\ pc' = "done"
    /\ outcome' = "return"
    /\ data' = balanced(kwargs)
    /\ effects' = NoEffects
    /\ UNCHANGED <<fn, names, kwargs, np_random, pin>>

DemoDataCall ==
    /\ pc = "call"
    /\ fn = "demo_data"
    /\ LET res == demo_data(names, kwargs, np_random) IN
        /\ outcome' = res.outcome
        /\ data' = res.data
        /\ effects' = res.effects
        /\ np_random' = res.np_random
    /\ pc' = "done"
    /\ UNCHANGED <<fn, names, kwargs, pin>>

\* The caller keeps what a demo_data call gave, to compare later calls with.
Remember ==
    /\ pc = "done"
    /\ fn = "demo_data"
    /\ pin' = [set |-> TRUE, names |-> names, kwargs |-> kwargs,
               outcome |-> outcome, data |-> data, between |-> FALSE]
    /\ UNCHANGED <<pc, fn, names, kwargs, outcome, data, effects, np_random>>

\* One call, of either function, with any arguments within the bounds.
Init ==
    /\ pc = "call"
    /\ \/ /\ fn = "balanced"
          /\ names = <<>>
          /\ kwargs \in BalancedInputs
       \/ /\ fn = "demo_data"
          /\ names \in SeqsUpTo(DemoNames, MaxNames)
          /\ kwargs \in DemoKwargs
    /\ outcome = "pending"
    /\ data = <<>>
    /\ effects = NoEffects
    /\ np_random = Fresh
    /\ pin = NoPin

Next == BalancedCall \/ DemoDataCall

Spec == Init /\ [][Next]_vars

\* ---------------------------------------------- what the claims speak about
\* The factors of a balanced call as the caller wrote them: every keyword
\* but repeat, its level count, and the repeat count (1 when left out).
CallFactors == {kwargs[i][1] : i \in 1..Len(kwargs)} \ {REPEAT}

CallCount(n) == kwargs[CHOOSE i \in 1..Len(kwargs) : kwargs[i][1] = n][2]

CallRepeat ==
    IF \E i \in 1..Len(kwargs) : kwargs[i][1] = REPEAT
    THEN CallCount(REPEAT) ELSE 1

RECURSIVE CountProduct(_)
CountProduct(S) ==
    IF S = {} THEN 1
    ELSE LET n == CHOOSE x \in S : TRUE IN CallCount(n) * CountProduct(S \ {n})

BalancedDone == pc = "done" /\ fn = "balanced"

WellFormedFactors ==
    /\ CallFactors # {}
    /\ \A n \in CallFactors : CallCount(n) >= 1
    /\ CallRepeat >= 1

\* Row i (from 1) of the table: each column's entry at i.
Row(i) == [n \in DOMAIN data |-> data[n][i]]

NumRows == IF DOMAIN data = {} THEN 0
           ELSE Len(data[CHOOSE n \in DOMAIN data : TRUE])

\* C1: a balanced call with at least one factor, level counts >= 1 and
\* repeat >= 1 returns one column per factor name, none named repeat, and
\* every column has repeat * (product of the level counts) entries.
C1_ColumnsAndLength ==
    (BalancedDone /\ WellFormedFactors) =>
        /\ DOMAIN data = CallFactors
        /\ REPEAT \notin DOMAIN data
        /\ LET rows == CallRepeat * CountProduct(CallFactors)
           IN  \A n \in DOMAIN data : Len(data[n]) = rows

C1_Witness ==
    /\ BalancedDone
    /\ kwargs = <<<<<<"b">>, 2>>, <<<<"a">>, 2>>, <<REPEAT, 2>>>>
    /\ DOMAIN data = {<<"a">>, <<"b">>}
    /\ Len(data[<<"a">>]) = 8
    /\ Len(data[<<"b">>]) = 8

\* C2: with balanced_size the product of the level counts, the rows
\* 1..balanced_size are pairwise distinct combinations of the factors' own
\* labels (so each combination is there once), and every later row i equals
\* row ((i - 1) mod balanced_size) + 1: repeat tiles the block, so that each
\* combination is at exactly the repeat positions i, i + balanced_size, ...
C2_BlockThenTiles ==
    (BalancedDone /\ WellFormedFactors) =>
        LET size == CountProduct(CallFactors)
            rows == [i \in 1..NumRows |-> Row(i)]
        IN
        /\ NumRows = CallRepeat * size
        /\ Cardinality({rows[i] : i \in 1..size}) = size
        /\ \A i \in 1..size : \A n \in CallFactors :
               \E l \in 1..CallCount(n) : rows[i][n] = n \o Str(l)
        /\ \A i \in (size + 1)..NumRows : rows[i] = rows[((i - 1) % size) + 1]

C2_Witness ==
    /\ BalancedDone
    /\ kwargs = <<<<<<"a">>, 2>>, <<<<"b">>, 2>>, <<REPEAT, 2>>>>
    /\ NumRows = 8
    /\ Row(2) = (<<"a">> :> <<"a", "1">>) @@ (<<"b">> :> <<"b", "2">>)
    /\ Row(6) = Row(2)
    /\ Row(5) # Row(2)

\* The factors sorted after n, by Python's order on str.
After(n) == {m \in CallFactors : StrLess(n, m)}

\* C3: the combinations come in odometer order over the sorted factor
\* names, the last one fastest: row i (from 0) of factor n holds n followed
\* by ((i div P) mod c) + 1, P the product of the level counts of the factors
\* sorted after n and c its own; the order the factors were passed in does
\* not enter.
C3_OdometerOrder ==
    (BalancedDone /\ WellFormedFactors) =>
        LET size == CountProduct(CallFactors)
            P == [n \in CallFactors |-> CountProduct(After(n))]
            c == [n \in CallFactors |-> CallCount(n)]
        IN
        /\ DOMAIN data = CallFactors
        /\ \A n \in CallFactors : \A i \in 0..(size - 1) :
               /\ i + 1 \in DOMAIN data[n]
               /\ data[n][i + 1] = n \o Str(((i \div P[n]) % c[n]) + 1)

C3_Witness ==
    /\ BalancedDone
    /\ kwargs = <<<<<<"c">>, 2>>, <<<<"a", "b">>, 2>>, <<<<"a">>, 2>>>>
    /\ data[<<"a">>][5] = <<"a", "2">>
    /\ data[<<"a", "b">>][3] = <<"a", "b", "2">>
    /\ data[<<"c">>][2] = <<"c", "2">>

\* ------------------------------------------------- demo_data, as called
DemoDone == pc = "done" /\ fn = "demo_data"

NameSet == {names[i] : i \in 1..Len(names)}

Passed(key) == \E i \in 1..Len(kwargs) : kwargs[i][1] = key

\* nlevels = L and min_rows = M of the call, 2 and 5 when left out.
ArgNLevels == IF Passed(NLEVELS) THEN CallCount(NLEVELS) ELSE 2

ArgMinRows == IF Passed(MIN_ROWS) THEN CallCount(MIN_ROWS) ELSE 5

UnknownOption ==
    \E i \in 1..Len(kwargs) : kwargs[i][1] \notin {NLEVELS, MIN_ROWS}

Between(c, lo, hi) == Ord(lo) <= Ord(c) /\ Ord(c) <= Ord(hi)

\* The claims' classes of names: first character a..n, p..z, anything else.
CatNames == {n \in NameSet : n # <<>> /\ Between(n[1], "a", "n")}

NumNames == {n \in NameSet : n # <<>> /\ Between(n[1], "p", "z")}

OtherNames == {n \in NameSet : n # <<>>} \ (CatNames \cup NumNames)

RECURSIVE Power(_, _)
Power(b, e) == IF e = 0 THEN 1 ELSE b * Power(b, e - 1)

\* The smallest multiple of size that is >= m.
IsSmallestMultiple(N, size, m) ==
    /\ \E k \in 1..m : N = k * size
    /\ N >= m
    /\ N - size < m

\* C4: after a successful demo_data call with nlevels = L and min_rows = M
\* every column has the same length N, the smallest multiple of
\* balanced_size = L ^ (number of distinct categorical names) that is >= M;
\* N >= M, and N = M when no name is categorical.
C4_RowCount ==
    (DemoDone /\ outcome = "return" /\ ArgNLevels >= 1 /\ ArgMinRows >= 1) =>
        LET size == Power(ArgNLevels, Cardinality(CatNames))
            N == NumRows
        IN  DOMAIN data # {} =>
            /\ \A n \in DOMAIN data : Len(data[n]) = N
            /\ IsSmallestMultiple(N, size, ArgMinRows)
            /\ N >= ArgMinRows
            /\ CatNames = {} => N = ArgMinRows

C4_Witness ==
    /\ DemoDone
    /\ names = <<<<"a">>, <<"n", "x">>, <<"p">>>>
    /\ kwargs = <<>>
    /\ outcome = "return"
    /\ Len(data[<<"a">>]) = 8
    /\ Len(data[<<"p">>]) = 8

\* What a successful call returns for the names as the claims class them.
ColumnsAsClassified ==
    /\ DOMAIN data = NameSet
    /\ \A n \in CatNames :
        /\ \A i \in 1..Len(data[n]) :
               \E l \in 1..ArgNLevels : data[n][i] = n \o Str(l)
        /\ \A l \in 1..ArgNLevels :
               \E i \in 1..Len(data[n]) : data[n][i] = n \o Str(l)
    /\ \A n \in NumNames : \A i \in 1..Len(data[n]) :
           DOMAIN data[n][i] = {"seed", "index"}

C6_EmptyNameIsInvalidName ==
    (DemoDone /\ <<>> \in NameSet /\ ~UnknownOption) => outcome = "PatsyError"

\* C7: with every name valid and a keyword other than nlevels and min_rows
\* the call raises TypeError before anything is generated: balanced is not
\* called, no generator is seeded or drawn from, nothing is returned.
C7_UnexpectedOption ==
    (DemoDone /\ UnknownOption /\ NameSet = CatNames \cup NumNames) =>
        /\ outcome = "TypeError"
        /\ effects.balanced = 0
        /\ effects.seeded = <<>>
        /\ effects.drawn = 0
        /\ data = <<>>
        /\ np_random = Fresh

C7_Witness ==
    /\ DemoDone
    /\ names = <<<<"a">>, <<"p">>>>
    /\ kwargs = <<<<ASDFASDF, 123>>>>
    /\ outcome = "TypeError"
    /\ effects = NoEffects

\* C9, as claimed: names are classified before the keywords are checked, so
\* a call with a name of unrecognised first character and an unknown keyword
\* raises PatsyError.
C9_AsClaimed ==
    (DemoDone /\ UnknownOption /\ OtherNames # {}) => outcome = "PatsyError"

\* C9, amended: the keywords are checked before any name is classified, so
\* such a call raises TypeError, the unexpected-option error.
C9_OptionCheckFirst ==
    (DemoDone /\ UnknownOption /\ OtherNames # {}) =>
        /\ outcome = "TypeError"
        /\ data = <<>>

C9_Witness ==
    /\ DemoDone
    /\ names = <<<<"a">>, <<"o">>>>
    /\ kwargs = <<<<ASDFASDF, 123>>>>
    /\ outcome = "TypeError"

\* ------------------------------------------------------- sequences of calls
SeqNameUniverse == {<<"a">>, <<"b">>, <<"x">>, <<"y">>}

Call(f, nms, kw) == [fn |-> f, names |-> nms, kwargs |-> kw]

\* The calls a run is made of: demo_data with every list of names, with and
\* without min_rows, two demo_data calls that fail, and balanced.
SeqCalls ==
    {Call("demo_data", nms, kw) :
        nms \in SeqsUpTo(SeqNameUniverse, MaxSeqNames),
        kw \in {<<>>, <<<<MIN_ROWS, 1>>>>}}
    \cup {Call("demo_data", <<<<"x">>, <<"o">>>>, <<>>),
          Call("demo_data", <<<<"x">>>>, <<<<ASDFASDF, 123>>>>),
          Call("balanced", <<>>, <<<<<<"x">>, 2>>, <<REPEAT, 2>>>>)}

InitSeq ==
    /\ pc = "idle"
    /\ fn = "none"
    /\ names = <<>>
    /\ kwargs = <<>>
    /\ outcome = "pending"
    /\ data = <<>>
    /\ effects = NoEffects
    /\ np_random = Fresh
    /\ pin = NoPin

NextSeq ==
    \/ \E c \in SeqCalls : Invoke(c.fn, c.names, c.kwargs)
    \/ BalancedCall
    \/ DemoDataCall
    \/ Remember

SpecSeq == InitSeq /\ [][NextSeq]_vars

\* The numeric names sorted before n.
Before(n) == {m \in NumNames : StrLess(m, n)}

\* C8: each call seeds a generator of its own with 0 and gives the j-th
\* numeric name in sorted order (j from 0) the deviates j * num_rows ..
\* (j + 1) * num_rows - 1 of that stream; a call with the names and keywords
\* of an earlier one returns the same table, whatever was called before or
\* in between, and the module-level generator is left as it was.
C8_Deterministic ==
    DemoDone =>
        /\ outcome = "return" =>
            /\ effects.seeded = <<0>>
            /\ \A n \in NumNames :
                   data[n] = [k \in 1..NumRows |->
                                 [seed |-> 0,
                                  index |-> Cardinality(Before(n)) * NumRows
                                            + k - 1]]
        /\ np_random = Fresh
        /\ (pin.set /\ pin.names = names /\ pin.kwargs = kwargs) =>
               (pin.outcome = outcome /\ pin.data = data)

C8_Witness ==
    /\ DemoDone
    /\ pin.set
    /\ pin.between
    /\ names = <<<<"y">>, <<"x">>>>
    /\ kwargs = <<>>
    /\ pin.names = names
    /\ pin.kwargs = kwargs
    /\ outcome = "return"
    /\ data[<<"x">>][1] = [seed |-> 0, index |-> 0]
    /\ data[<<"y">>][1] = [seed |-> 0, index |-> 5]
    /\ pin.data = data

SetOf(nms) == {nms[i] : i \in 1..Len(nms)}

MinRowsOf(kw) ==
    IF \E i \in 1..Len(kw) : kw[i][1] = MIN_ROWS
    THEN kw[CHOOSE i \in 1..Len(kw) : kw[i][1] = MIN_ROWS][2] ELSE 5

NLevelsOf(kw) ==
    IF \E i \in 1..Len(kw) : kw[i][1] = NLEVELS
    THEN kw[CHOOSE i \in 1..Len(kw) : kw[i][1] = NLEVELS][2] ELSE 2

\* C10: the table depends on the set of distinct names, nlevels and
\* min_rows only: a call whose valid names are a permutation of an earlier
\* call's, or repeat some of them, with the same nlevels and min_rows,
\* returns the same table, and a repeated categorical name counts once in
\* balanced_size.
C10_SetOfNamesOnly ==
    (DemoDone /\ NameSet = CatNames \cup NumNames /\ ~UnknownOption) =>
        /\ outcome = "return"
        /\ DOMAIN data # {} =>
               IsSmallestMultiple(NumRows,
                                  Power(ArgNLevels, Cardinality(CatNames)),
                                  ArgMinRows)
        /\ (/\ pin.set
            /\ SetOf(pin.names) = NameSet
            /\ NLevelsOf(pin.kwargs) = ArgNLevels
            /\ MinRowsOf(pin.kwargs) = ArgMinRows
            /\ \A i \in 1..Len(pin.kwargs) :
                   pin.kwargs[i][1] \in {NLEVELS, MIN_ROWS})
           => (pin.outcome = outcome /\ pin.data = data)

C10_Witness ==
    /\ DemoDone
    /\ pin.set
    /\ pin.names = <<<<"a">>, <<"a">>>>
    /\ names = <<<<"a">>>>
    /\ kwargs = <<>>
    /\ pin.kwargs = kwargs
    /\ outcome = "return"
    /\ NumRows = 6
    /\ pin.data = data

====
